---- MODULE Spec2Model ----
(***************************************************************************)
(* Model of the pipe input device of Pipes.cpp: the external producer     *)
(* that sends command bytes, PipeDevice::UpdateInput of the byte-stream    *)
(* build (read loop and parse loop) and of the USE_ZMQ build (one message  *)
(* per call), PipeDevice::ParseCommand, PipeDevice::SetAxis, and           *)
(* PopulateDevices with the constructor and the destructor.                *)
(*                                                                         *)
(* The specifications share the variables.  On the byte-stream device:     *)
(* Spec (a producer that writes a script of command lines a few bytes at a *)
(* time), SpecCmd (a producer that writes one whole line of a larger       *)
(* vocabulary at a time), SpecAxis (SetAxis called directly) and SpecLive  *)
(* (a producer that never stops, a fairly scheduled host thread).  On the  *)
(* USE_ZMQ device: SpecZmq.  On one device of each build fed the same      *)
(* chunks: SpecPair.  On discovery and teardown: SpecDisc.                 *)
(*                                                                         *)
(* A byte is a one-character string, a std::string is a sequence of bytes. *)
(* A double is modelled exactly as an integer number of 1/Unit; every      *)
(* number used is a multiple of 1/8, so the double arithmetic of the code  *)
(* (subtract, halve, double, min, max) is exact on it.                     *)
(***************************************************************************)
EXTENDS Integers, Sequences, FiniteSets, TLC

VARIABLES
  script,     \* producer: the bytes of the transmission in progress
  nwritten,   \* producer: how many bytes of script it has written to the pipe
  nread,      \* pipe: how many bytes of script read() has already returned
  m_buf,      \* PipeDevice::m_buf, the accumulator
  m_buttons,  \* PipeDevice::m_buttons, button token -> state of its PipeInput
  m_axes,     \* PipeDevice::m_axes, axis half key -> state of its PipeInput
  pc,         \* position of the host thread in UpdateInput
  parsed,     \* history: the commands handed to ParseCommand, in order
  entry,      \* history: when the current call began, was m_buf non-empty
              \*          (partial) and how many commands had been parsed (np)
  last_set,   \* history: arguments of the last direct SetAxis call
              \*          (name <<>>: none yet)
  z_msgs,     \* USE_ZMQ build: every message sent to the socket, in order
  z_recv,     \* USE_ZMQ build: how many of them zmq_recvmsg has returned
  z_buttons,  \* USE_ZMQ build: m_buttons of the device
  z_axes,     \* USE_ZMQ build: m_axes of the device
  z_parsed,   \* history: the commands that device handed to ParseCommand
  use_zmq,    \* discovery: is USE_ZMQ defined in this build
  children,   \* discovery: fst.children, the entries of the Pipes directory
  d_i,        \* discovery: the loop variable i of PopulateDevices
  d_pc,       \* discovery: position of PopulateDevices
  registry,   \* discovery: the devices of g_controller_interface, in order
  added,      \* history: the names of the devices passed to AddDevice
  acquired,   \* history: the handles open(), zmq_ctx_new(), zmq_socket() gave
  released    \* history: the handles passed to close(), zmq_close(),
              \*          zmq_ctx_destroy(), in order

(* The USE_ZMQ device and its socket *)
zvars == <<z_msgs, z_recv, z_buttons, z_axes, z_parsed>>

(* Discovery and teardown *)
dvars == <<use_zmq, children, d_i, d_pc, registry, added, acquired,
           released>>

vars == <<script, nwritten, nread, m_buf, m_buttons, m_axes, pc, parsed,
          entry, last_set, zvars, dvars>>

----------------------------------------------------------------------------
(* Bounds *)

MaxLines == 2     \* lines per generated producer script
MaxWrite == 3     \* bytes per single producer write

(* Program constants *)

BufSize == 32     \* char buf[32]
Unit == 2000      \* the double 1.0
Half == Unit \div 2

----------------------------------------------------------------------------
(* Bytes and strings *)

NL == "\n"
SP == " "

Min(a, b) == IF a < b THEN a ELSE b
Max(a, b) == IF a < b THEN b ELSE a

Last(s) == s[Len(s)]

tPRESS   == <<"P", "R", "E", "S", "S">>
tRELEASE == <<"R", "E", "L", "E", "A", "S", "E">>
tSET     == <<"S", "E", "T">>
tJUMP    == <<"J", "U", "M", "P">>
tA       == <<"A">>
tB       == <<"B">>
tC       == <<"C">>
tD       == <<"D">>
tL       == <<"L">>
tR       == <<"R">>
tQ       == <<"Q">>
tMAIN    == <<"M", "A", "I", "N">>

s_button_tokens ==
  { <<"A">>, <<"B">>, <<"X">>, <<"Y">>, <<"Z">>,
    <<"S", "T", "A", "R", "T">>, <<"L">>, <<"R">>,
    <<"D", "_", "U", "P">>, <<"D", "_", "D", "O", "W", "N">>,
    <<"D", "_", "L", "E", "F", "T">>, <<"D", "_", "R", "I", "G", "H", "T">> }

s_shoulder_tokens == { <<"L">>, <<"R">> }

s_axis_tokens == { <<"M", "A", "I", "N">>, <<"C">> }

sufX     == <<" ", "X">>
sufY     == <<" ", "Y">>
sufPlus  == <<" ", "+">>
sufMinus == <<" ", "-">>

----------------------------------------------------------------------------
(* std::string::find("\n"): index (from 1) of the first newline, 0 = npos *)

RECURSIVE FindFrom(_, _)
FindFrom(s, i) ==
  IF i > Len(s) THEN 0
  ELSE IF s[i] = NL THEN i
  ELSE FindFrom(s, i + 1)

Find(s) == FindFrom(s, 1)

(* SplitString(str, delim) of Common/StringUtil: std::getline on delim     *)
(* until the stream is exhausted.  Two delimiters in a row give an empty   *)
(* token; a delimiter at the very end gives no token after it.             *)

RECURSIVE SplitFrom(_, _, _, _)
SplitFrom(str, delim, i, cur) ==
  IF i > Len(str) THEN (IF cur = <<>> THEN <<>> ELSE <<cur>>)
  ELSE IF str[i] = delim THEN <<cur>> \o SplitFrom(str, delim, i + 1, <<>>)
  ELSE SplitFrom(str, delim, i + 1, Append(cur, str[i]))

SplitString(str, delim) == SplitFrom(str, delim, 1, <<>>)

----------------------------------------------------------------------------
(* StringToDouble: operator>>(double) on a classic-locale istringstream.   *)
(* Reads [sign] digits [. digits] and stops at the first byte that does    *)
(* not fit.  No digit at all: the extraction fails and stores 0.  Empty    *)
(* text: the stream is at end of file before the extraction starts, so     *)
(* nothing is stored and the caller returns the uninitialized local; u is  *)
(* the value that happens to be there.                                     *)

DigitVal ==
  [c \in {"0", "1", "2", "3", "4", "5", "6", "7", "8", "9"} |->
     CASE c = "0" -> 0 [] c = "1" -> 1 [] c = "2" -> 2 [] c = "3" -> 3
       [] c = "4" -> 4 [] c = "5" -> 5 [] c = "6" -> 6 [] c = "7" -> 7
       [] c = "8" -> 8 [] c = "9" -> 9]

RECURSIVE CountDigits(_, _)
CountDigits(s, i) ==
  IF i > Len(s) \/ s[i] \notin DOMAIN DigitVal THEN 0
  ELSE 1 + CountDigits(s, i + 1)

RECURSIVE DigitsValue(_)
DigitsValue(s) ==
  IF s = <<>> THEN 0
  ELSE 10 * DigitsValue(SubSeq(s, 1, Len(s) - 1)) + DigitVal[Last(s)]

RECURSIVE Pow10(_)
Pow10(n) == IF n = 0 THEN 1 ELSE 10 * Pow10(n - 1)

StringToDouble(text, u) ==
  IF text = <<>> THEN u
  ELSE
    LET signed == Head(text) \in {"-", "+"}
        body   == IF signed THEN Tail(text) ELSE text
        ni     == CountDigits(body, 1)
        rest   == SubSeq(body, ni + 1, Len(body))
        dot    == rest # <<>> /\ Head(rest) = "."
        nf     == IF dot THEN CountDigits(rest, 2) ELSE 0
        ip     == DigitsValue(SubSeq(body, 1, ni))
        fp     == DigitsValue(SubSeq(rest, 2, nf + 1))
        mag    == ip * Unit + ((fp * Unit) \div Pow10(nf))
    IN  IF ni + nf = 0 THEN 0
        ELSE IF Head(text) = "-" THEN 0 - mag ELSE mag

(* Values an uninitialized double may hold: one below 0, one inside and    *)
(* one above [0,1] (finite values only).                                   *)
Garbage == {0 - Unit, Half \div 2, Unit + Half}

----------------------------------------------------------------------------
(* MathUtil::Clamp *)

Clamp(val, lo, hi) == Max(lo, Min(hi, val))

(* PipeDevice::AddAxis: two halves, both set to the given value *)

(* AddAxis that gives the value to the positive half only *)
AddAxis_plusOnly(axes, name, value) ==
  LET new == {name \o sufPlus, name \o sufMinus}
  IN  [k \in (DOMAIN axes) \cup new |->
         IF k = name \o sufPlus THEN value
         ELSE IF k = name \o sufMinus THEN 0
         ELSE axes[k]]

AddAxis(axes, name, value) ==
  LET new == {name \o sufPlus, name \o sufMinus}
  IN  [k \in (DOMAIN axes) \cup new |-> IF k \in new THEN value ELSE axes[k]]

(* PipeInput::PipeInput: the state a new input starts with *)
PipeInputInitial == 0

(* PipeDevice::PipeDevice: the maps after construction *)

InitButtons == [tok \in s_button_tokens |-> PipeInputInitial]

InitAxes ==
  LET a0 == << >>
      a1 == AddAxis(a0, tL, 0)
      a2 == AddAxis(a1, tR, 0)
      a3 == AddAxis(a2, tMAIN \o sufX, Half)
      a4 == AddAxis(a3, tMAIN \o sufY, Half)
      a5 == AddAxis(a4, tC \o sufX, Half)
  IN  AddAxis(a5, tC \o sufY, Half)

(* PipeDevice::SetAxis *)

(* The clamp left out *)
ClampedValue_noClamp(value) == value

ClampedValue(value) == Clamp(value, 0, Unit)

AxisHi(v) == Max(0, v - Half) * 2

(* The negative half without the std::min: it goes below zero above centre *)
AxisLo_noMin(v) == (Half - v) * 2

(* The negative half as the plain complement 1 - value *)
AxisLo_complement(v) == Unit - v

AxisLo(v) == (Half - Min(Half, v)) * 2

(* SetAxis writing through m_axes[key], which creates a missing key *)
SetAxis_insert(axes, name, value) ==
  LET new == {name \o sufPlus, name \o sufMinus}
  IN  [k \in (DOMAIN axes) \cup new |->
         IF k = name \o sufPlus THEN Max(0, Clamp(value, 0, Unit) - Half) * 2
         ELSE IF k = name \o sufMinus
           THEN (Half - Min(Half, Clamp(value, 0, Unit))) * 2
         ELSE axes[k]]

SetAxis(axes, name, value) ==
  LET v  == ClampedValue(value)
      hi == AxisHi(v)
      lo == AxisLo(v)
      a1 == IF (name \o sufPlus) \in DOMAIN axes
              THEN [axes EXCEPT ![name \o sufPlus] = hi]
              ELSE axes
  IN  IF (name \o sufMinus) \in DOMAIN a1
        THEN [a1 EXCEPT ![name \o sufMinus] = lo]
        ELSE a1

(* PipeDevice::ParseCommand on the device state st = [buttons, axes];      *)
(* ux, uy: what the uninitialized results of the two StringToDouble calls  *)
(* hold in case their text is empty.                                       *)

(* The token count guard with its upper limit off by one *)
TokenCountRejected_upTo5(n) == n < 2 \/ n > 5

TokenCountRejected(n) == n < 2 \/ n > 4

(* The value of a three-token SET passed on unscaled *)
ScaleSigned_unscaled(value) == value

ScaleSigned(value) == (value \div 2) + Half

(* The key of a three-token SET taken for the X axis of a stick *)
AxisKey1D_stickX(token) == token \o sufX

(* The key a three-token SET passes to SetAxis: tokens[1] as it stands *)
AxisKey1D(token) == token

(* ParseCommand with one lookup for buttons and axes: PRESS and RELEASE    *)
(* also drive the axis that has the name of the button                     *)
ParseCommand_sharedNames(st, command, ux, uy) ==
  LET tokens == SplitString(command, SP)
      n      == Len(tokens)
  IN  IF TokenCountRejected(n) THEN st
      ELSE IF tokens[1] = tPRESS \/ tokens[1] = tRELEASE THEN
        LET v  == IF tokens[1] = tPRESS THEN Unit ELSE 0
            s1 == IF tokens[2] \in DOMAIN st.buttons
                    THEN [st EXCEPT !.buttons[tokens[2]] = v]
                    ELSE st
        IN  [s1 EXCEPT !.axes = SetAxis(@, tokens[2], v)]
      ELSE IF tokens[1] = tSET THEN
        IF n = 3 THEN
          LET value == StringToDouble(tokens[3], ux)
          IN  [st EXCEPT !.axes = SetAxis(@, AxisKey1D(tokens[2]), ScaleSigned(value))]
        ELSE IF n = 4 THEN
          LET x  == StringToDouble(tokens[3], ux)
              y  == StringToDouble(tokens[4], uy)
              ax == SetAxis(st.axes, tokens[2] \o sufX, x)
          IN  [st EXCEPT !.axes = SetAxis(ax, tokens[2] \o sufY, y)]
        ELSE st
      ELSE st

ParseCommand(st, command, ux, uy) ==
  LET tokens == SplitString(command, SP)
      n      == Len(tokens)
  IN  IF TokenCountRejected(n) THEN st
      ELSE IF tokens[1] = tPRESS \/ tokens[1] = tRELEASE THEN
        IF tokens[2] \in DOMAIN st.buttons
          THEN [st EXCEPT !.buttons[tokens[2]] =
                            IF tokens[1] = tPRESS THEN Unit ELSE 0]
          ELSE st
      ELSE IF tokens[1] = tSET THEN
        IF n = 3 THEN
          LET value == StringToDouble(tokens[3], ux)
          IN  [st EXCEPT !.axes = SetAxis(@, AxisKey1D(tokens[2]), ScaleSigned(value))]
        ELSE IF n = 4 THEN
          LET x  == StringToDouble(tokens[3], ux)
              y  == StringToDouble(tokens[4], uy)
              ax == SetAxis(st.axes, tokens[2] \o sufX, x)
          IN  [st EXCEPT !.axes = SetAxis(ax, tokens[2] \o sufY, y)]
        ELSE st
      ELSE st

----------------------------------------------------------------------------
(* The producer's vocabulary *)

RECURSIVE Join(_)
Join(toks) ==
  IF toks = <<>> THEN <<>>
  ELSE IF Len(toks) = 1 THEN toks[1]
  ELSE toks[1] \o <<SP>> \o Join(Tail(toks))

RECURSIVE Concat(_)
Concat(lines) ==
  IF lines = <<>> THEN <<>>
  ELSE lines[1] \o <<NL>> \o Concat(Tail(lines))

n1   == <<"1">>
n0   == <<"0">>
n2   == <<"2">>
n1_0 == <<"1", ".", "0">>
n0_5 == <<"0", ".", "5">>
n0_25 == <<"0", ".", "2", "5">>
n0_75 == <<"0", ".", "7", "5">>
n1_5 == <<"1", ".", "5">>
nm1  == <<"-", "1">>
nm0_5 == <<"-", "0", ".", "5">>
nBad == <<"x">>

lPressA    == Join(<<tPRESS, tA>>)
lReleaseA  == Join(<<tRELEASE, tA>>)
lPressAB   == Join(<<tPRESS, tA, tB>>)
lPress5    == Join(<<tPRESS, tA, tB, tC, tD>>)
lSetL1     == Join(<<tSET, tL, n1>>)
lSetMain1  == Join(<<tSET, tMAIN, n1_0>>)
lEmpty     == <<>>
lOneTok    == tSET

lPressL     == Join(<<tPRESS, tL>>)
lReleaseL   == Join(<<tRELEASE, tL>>)
lPressQ     == Join(<<tPRESS, tQ>>)
lJumpA      == Join(<<tJUMP, tA>>)
lReleaseABC == Join(<<tRELEASE, tA, tB, tC>>)
lSetL1_0    == Join(<<tSET, tL, n1_0>>)
lSetL0_5    == Join(<<tSET, tL, n0_5>>)
lSetL0      == Join(<<tSET, tL, n0>>)
lSetLm1     == Join(<<tSET, tL, nm1>>)
lSetL2      == Join(<<tSET, tL, n2>>)
lSetLBad    == Join(<<tSET, tL, nBad>>)
lSetLNone   == Join(<<tSET, tL>>)
lSetQ       == Join(<<tSET, tQ, n0_5>>)
lSetL2D     == Join(<<tSET, tL, n0_5, n0_5>>)
lSetMainA   == Join(<<tSET, tMAIN, n1_0, n0_5>>)
lSetMainB   == Join(<<tSET, tMAIN, n0, n0_25>>)
lSetMainC   == Join(<<tSET, tMAIN, nm0_5, n1_5>>)
lSetMainD   == Join(<<tSET, tMAIN, n0_75, n1>>)
lSetMainGap == Join(<<tSET, tMAIN, <<>>, n0_5>>)

(* Lines of the producer that writes one whole line at a time *)
CmdLines ==
  {lPressA, lReleaseA, lPressAB, lPress5, lEmpty, lOneTok,
   lPressL, lReleaseL, lPressQ, lJumpA, lReleaseABC,
   lSetL1_0, lSetL0_5, lSetL0, lSetLm1, lSetL2, lSetLBad, lSetLNone,
   lSetMain1, lSetQ, lSetL2D,
   lSetMainA, lSetMainB, lSetMainC, lSetMainD, lSetMainGap}

(* Lines of the byte-split producer *)
StreamLines ==
  {lPressA, lReleaseA, lPressAB, lPress5, lEmpty, lOneTok}

RECURSIVE SeqsUpTo(_, _)
SeqsUpTo(S, n) ==
  IF n = 0 THEN {<<>>}
  ELSE LET shorter == SeqsUpTo(S, n - 1)
       IN  shorter \cup {Append(s, x) : s \in shorter, x \in S}

(* One transmission longer than the read buffer *)
LongScript == Concat(<<lPress5, lSetL1, lPressA, lReleaseA, lPressAB>>)

Scripts == {Concat(ls) : ls \in SeqsUpTo(StreamLines, MaxLines)} \cup {LongScript}

----------------------------------------------------------------------------
(* The pipe: what the producer has written and read() has not returned yet *)

Pipe == SubSeq(script, nread + 1, nwritten)

(* The bytes read() has returned so far *)
Received == SubSeq(script, 1, nread)

Device == [buttons |-> m_buttons, axes |-> m_axes]

(* The USE_ZMQ device as constructed, nothing sent to its socket *)
ZmqInit ==
  /\ z_msgs = <<>>
  /\ z_recv = 0
  /\ z_buttons = InitButtons
  /\ z_axes = InitAxes
  /\ z_parsed = <<>>

(* Discovery not run: the device of this specification exists already *)
NoDiscovery ==
  /\ use_zmq = FALSE
  /\ children = <<>>
  /\ d_i = 0
  /\ d_pc = "start"
  /\ registry = <<>>
  /\ added = <<>>
  /\ acquired = {}
  /\ released = <<>>

Init ==
  /\ script \in Scripts
  /\ nwritten = 0
  /\ nread = 0
  /\ m_buf = <<>>
  /\ m_buttons = InitButtons
  /\ m_axes = InitAxes
  /\ pc = "idle"
  /\ parsed = <<>>
  /\ entry = [partial |-> FALSE, np |-> 0]
  /\ last_set = [name |-> <<>>, value |-> 0]
  /\ ZmqInit
  /\ NoDiscovery

(* The producer writes the next k bytes of its script *)
Write ==
  /\ nwritten < Len(script)
  /\ \E k \in 1..Min(MaxWrite, Len(script) - nwritten) :
       nwritten' = nwritten + k
  /\ UNCHANGED <<script, nread, m_buf, m_buttons, m_axes, pc, parsed,
                 entry, last_set>>
  /\ UNCHANGED <<zvars, dvars>>

(* The host calls UpdateInput *)
UpdateInputCall ==
  /\ pc = "idle"
  /\ pc' = "read"
  /\ entry' = [partial |-> m_buf # <<>>, np |-> Len(parsed)]
  /\ UNCHANGED <<script, nwritten, nread, m_buf, m_buttons, m_axes, parsed,
                 last_set>>
  /\ UNCHANGED <<zvars, dvars>>

(* ReadChunk with m_buf.assign in place of m_buf.append *)
ReadChunk_assign ==
  /\ pc = "read"
  /\ Pipe # <<>>
  /\ LET bytes_read == Min(BufSize, Len(Pipe))
     IN  /\ m_buf' = SubSeq(Pipe, 1, bytes_read)
         /\ nread' = nread + bytes_read
  /\ UNCHANGED <<script, nwritten, m_buttons, m_axes, pc, parsed, entry,
                 last_set>>
  /\ UNCHANGED <<zvars, dvars>>

(* read() returns bytes_read > 0 bytes: m_buf.append(buf, bytes_read) *)
ReadChunk ==
  /\ pc = "read"
  /\ Pipe # <<>>
  /\ LET bytes_read == Min(BufSize, Len(Pipe))
     IN  /\ m_buf' = m_buf \o SubSeq(Pipe, 1, bytes_read)
         /\ nread' = nread + bytes_read
  /\ UNCHANGED <<script, nwritten, m_buttons, m_axes, pc, parsed, entry,
                 last_set>>
  /\ UNCHANGED <<zvars, dvars>>

(* read() returns bytes_read <= 0: the read loop ends *)
ReadEmpty ==
  /\ pc = "read"
  /\ Pipe = <<>>
  /\ pc' = "parse"
  /\ UNCHANGED <<script, nwritten, nread, m_buf, m_buttons, m_axes, parsed,
                 entry, last_set>>
  /\ UNCHANGED <<zvars, dvars>>

(* The command with its newline: m_buf.substr(0, newline + 1) *)
Command_withNewline == SubSeq(m_buf, 1, Find(m_buf))

(* The command the parse loop dequeues next: m_buf.substr(0, newline) *)
Command == SubSeq(m_buf, 1, Find(m_buf) - 1)

(* One iteration of the parse loop *)
ParseStep ==
  /\ pc = "parse"
  /\ Find(m_buf) # 0
  /\ \E ux \in Garbage, uy \in Garbage :
       LET st == ParseCommand(Device, Command, ux, uy)
       IN  /\ m_buttons' = st.buttons
           /\ m_axes' = st.axes
  /\ m_buf' = SubSeq(m_buf, Find(m_buf) + 1, Len(m_buf))
  /\ parsed' = Append(parsed, Command)
  /\ UNCHANGED <<script, nwritten, nread, pc, entry, last_set>>
  /\ UNCHANGED <<zvars, dvars>>

(* No newline left: UpdateInput returns *)
Return ==
  /\ pc = "parse"
  /\ Find(m_buf) = 0
  /\ pc' = "idle"
  /\ UNCHANGED <<script, nwritten, nread, m_buf, m_buttons, m_axes, parsed,
                 entry, last_set>>
  /\ UNCHANGED <<zvars, dvars>>

Next ==
  \/ Write
  \/ UpdateInputCall
  \/ ReadChunk
  \/ ReadEmpty
  \/ ParseStep
  \/ Return

Spec == Init /\ [][Next]_vars

----------------------------------------------------------------------------
(* The same device fed by a producer that writes one whole line of a       *)
(* larger vocabulary at a time, once the device has consumed the previous  *)
(* one.  script and parsed then cover the line in flight only.             *)

InitCmd ==
  /\ script = <<>>
  /\ nwritten = 0
  /\ nread = 0
  /\ m_buf = <<>>
  /\ m_buttons = InitButtons
  /\ m_axes = InitAxes
  /\ pc = "idle"
  /\ parsed = <<>>
  /\ entry = [partial |-> FALSE, np |-> 0]
  /\ last_set = [name |-> <<>>, value |-> 0]
  /\ ZmqInit
  /\ NoDiscovery

WriteLine ==
  /\ pc = "idle"
  /\ nread = Len(script)
  /\ \E line \in CmdLines :
       /\ script' = line \o <<NL>>
       /\ nwritten' = Len(line) + 1
  /\ nread' = 0
  /\ parsed' = <<>>
  /\ UNCHANGED <<m_buf, m_buttons, m_axes, pc, entry, last_set>>
  /\ UNCHANGED <<zvars, dvars>>

NextCmd ==
  \/ WriteLine
  \/ UpdateInputCall
  \/ ReadChunk
  \/ ReadEmpty
  \/ ParseStep
  \/ Return

SpecCmd == InitCmd /\ [][NextCmd]_vars

----------------------------------------------------------------------------
(* SetAxis alone, called on the device with inputs from a grid of eighths  *)
(* that reaches Over steps below 0 and above 1.                            *)

Over == 4

AxisInputs == {k * (Unit \div 8) : k \in (0 - Over)..(8 + Over)}

AxisEntries == {tL, tMAIN \o sufX, tQ}

SetAxisCall ==
  /\ \E name \in AxisEntries, value \in AxisInputs :
       /\ m_axes' = SetAxis(m_axes, name, value)
       /\ last_set' = [name |-> name, value |-> value]
  /\ UNCHANGED <<script, nwritten, nread, m_buf, m_buttons, pc, parsed, entry>>
  /\ UNCHANGED <<zvars, dvars>>

NextAxis == SetAxisCall

SpecAxis == InitCmd /\ [][NextAxis]_vars

----------------------------------------------------------------------------
(* What the claims speak of, defined on the byte stream itself *)

FreshDevice == [buttons |-> InitButtons, axes |-> InitAxes]

IsPrefix(s, t) == Len(s) <= Len(t) /\ s = SubSeq(t, 1, Len(s))

(* The newline-terminated lines of a byte sequence, newline stripped *)
RECURSIVE LinesFrom(_, _, _)
LinesFrom(bytes, i, cur) ==
  IF i > Len(bytes) THEN <<>>
  ELSE IF bytes[i] = NL THEN <<cur>> \o LinesFrom(bytes, i + 1, <<>>)
  ELSE LinesFrom(bytes, i + 1, Append(cur, bytes[i]))

CompleteLines(bytes) == LinesFrom(bytes, 1, <<>>)

(* The bytes after the last newline of a byte sequence *)
RECURSIVE PartialFrom(_, _, _)
PartialFrom(bytes, i, cur) ==
  IF i > Len(bytes) THEN cur
  ELSE IF bytes[i] = NL THEN PartialFrom(bytes, i + 1, <<>>)
  ELSE PartialFrom(bytes, i + 1, Append(cur, bytes[i]))

TrailingPartial(bytes) == PartialFrom(bytes, 1, <<>>)

(* The device after the given lines, applied one after the other.  No line *)
(* of a script has an empty number, so the uninitialized value is unused.  *)
RECURSIVE ApplyAll(_, _)
ApplyAll(st, lines) ==
  IF lines = <<>> THEN st
  ELSE ApplyAll(ParseCommand(st, Head(lines), 0, 0), Tail(lines))

TokenCount(line) == Len(SplitString(line, SP))

WellCounted(line) == TokenCount(line) \in 2..4

(* C1: whatever the split of the bytes over writes and polls, the commands *)
(* parsed are the complete lines received, each once and in order, never   *)
(* ahead of their newline; when UpdateInput has returned, every line whose *)
(* newline was read has been applied, and the bytes after the last newline *)
(* are kept in m_buf without having changed any button or axis.            *)
C1_SplitLineAppliedOnce ==
  /\ IsPrefix(parsed, CompleteLines(Received))
  /\ pc = "idle" =>
       /\ parsed = CompleteLines(Received)
       /\ m_buf = TrailingPartial(Received)
       /\ Device = ApplyAll(FreshDevice, CompleteLines(Received))

(* A call began with the prefix of PRESS A retained from an earlier call   *)
(* and completed it: the command was parsed in this call and A is pressed. *)
C1_Witness ==
  /\ pc = "idle"
  /\ entry.partial
  /\ entry.np = 0
  /\ parsed = <<lPressA>>
  /\ m_buttons[tA] = Unit

(* What the last well-formed button command naming b among the lines       *)
(* wrote: PRESS <b> or RELEASE <b> of exactly two tokens; the initial      *)
(* value when there is none.                                               *)
RECURSIVE LastWellFormedButton(_, _)
LastWellFormedButton(b, lines) ==
  IF lines = <<>> THEN PipeInputInitial
  ELSE LET toks == SplitString(Last(lines), SP)
       IN  IF Len(toks) = 2 /\ toks[2] = b /\ toks[1] = tPRESS THEN Unit
           ELSE IF Len(toks) = 2 /\ toks[2] = b /\ toks[1] = tRELEASE THEN 0
           ELSE LastWellFormedButton(b, SubSeq(lines, 1, Len(lines) - 1))

(* C2, as claimed: after UpdateInput has returned every button holds what  *)
(* the last well-formed command naming it among the lines received wrote.  *)
C2_LastWellFormedWins ==
  pc = "idle" =>
    \A b \in s_button_tokens :
      m_buttons[b] = LastWellFormedButton(b, CompleteLines(Received))

(* C7: when UpdateInput has returned, the device is the one that the lines *)
(* with 2 to 4 tokens alone would have produced, and nothing of a line     *)
(* with another token count is left in m_buf.                              *)
C7_MalformedCountIsSkipped ==
  pc = "idle" =>
    /\ Device = ApplyAll(FreshDevice, SelectSeq(CompleteLines(Received), WellCounted))
    /\ m_buf = TrailingPartial(Received)

(* A five-token line, then PRESS A: the first changed nothing, the second  *)
(* was applied.                                                            *)
C7_Witness ==
  /\ pc = "idle"
  /\ parsed = <<lPress5, lPressA>>
  /\ m_buttons[tA] = Unit
  /\ m_buf = <<>>

----------------------------------------------------------------------------
(* What the claims about single commands speak of *)

Tokens(line) == SplitString(line, SP)

(* The step taken is one ParseCommand call, on Command *)
StepParses == pc = "parse" /\ parsed' = Append(parsed, Command)

UnchangedDevice == m_buttons' = m_buttons /\ m_axes' = m_axes

(* The axis names created at construction *)
RecognizedAxes ==
  s_shoulder_tokens \cup {t \o sufX : t \in s_axis_tokens}
                    \cup {t \o sufY : t \in s_axis_tokens}

(* Section 4.4 of the specification, steps 1 to 4 *)
ClaimClamp(x) == IF x < 0 THEN 0 ELSE IF x > Unit THEN Unit ELSE x

ClaimHi(c) == Max(0, c - Half) * 2

ClaimLo(c) == (Half - Min(Half, c)) * 2

ClaimHalves(axes, name, input) ==
  IF name \in RecognizedAxes
    THEN [axes EXCEPT ![name \o sufPlus] = ClaimHi(ClaimClamp(input)),
                      ![name \o sufMinus] = ClaimLo(ClaimClamp(input))]
    ELSE axes

(* The axis names a line's SET derives: one for three tokens, two for four *)
SetTargets(t) ==
  IF Len(t) = 3 /\ t[1] = tSET THEN {t[2]}
  ELSE IF Len(t) = 4 /\ t[1] = tSET THEN {t[2] \o sufX, t[2] \o sufY}
  ELSE {}

(* C3: ParseCommand on "SET <axis> v" stores for key <axis> the halves of  *)
(* input (v/2)+0.5, and on "SET <axis> x y" the halves of x for key        *)
(* "<axis> X" and of y for key "<axis> Y": positive half max(0,c-0.5)*2,   *)
(* negative half (0.5-min(0.5,c))*2, c the input clamped to [0,1].  (An    *)
(* empty x token reads as whatever the uninitialized double holds.)        *)
C3_SetComputesHalves ==
  [][StepParses =>
       LET t == Tokens(Command)
       IN  /\ (Len(t) = 3 /\ t[1] = tSET) =>
                m_axes' = ClaimHalves(m_axes, t[2],
                                      (StringToDouble(t[3], 0) \div 2) + Half)
           /\ (Len(t) = 4 /\ t[1] = tSET) =>
                \E u \in Garbage :
                  m_axes' = ClaimHalves(
                              ClaimHalves(m_axes, t[2] \o sufX,
                                          StringToDouble(t[3], u)),
                              t[2] \o sufY, StringToDouble(t[4], u))
  ]_vars

(* SET L 0.5 was applied earlier (L + holds 0.5) and SET MAIN -0.5 1.5 has *)
(* just been parsed: MAIN X is full negative, MAIN Y full positive.        *)
C3_Witness ==
  /\ parsed = <<lSetMainC>>
  /\ m_axes[tL \o sufPlus] = Half
  /\ m_axes[tL \o sufMinus] = 0
  /\ m_axes[tMAIN \o sufX \o sufMinus] = Unit
  /\ m_axes[tMAIN \o sufX \o sufPlus] = 0
  /\ m_axes[tMAIN \o sufY \o sufPlus] = Unit

(* C4, as claimed: once "SET MAIN 1.0" has been processed, MAIN X + holds  *)
(* 1.0 and MAIN X - holds 0.0.                                             *)
C4_SetMain1SetsMainX ==
  (parsed # <<>> /\ Last(parsed) = lSetMain1) =>
    /\ m_axes[tMAIN \o sufX \o sufPlus] = Unit
    /\ m_axes[tMAIN \o sufX \o sufMinus] = 0

(* C4, amended: "SET MAIN 1.0" changes no button and no axis half, so MAIN *)
(* X + and MAIN X - keep what they held; it is the four-token line         *)
(* "SET MAIN 1.0 0.5" that leaves MAIN X + at 1.0 and MAIN X - at 0.0.     *)
C4_SetMain1ChangesNothing ==
  [][StepParses =>
       /\ Command = lSetMain1 => UnchangedDevice
       /\ Command = lSetMainA =>
            /\ m_axes'[tMAIN \o sufX \o sufPlus] = Unit
            /\ m_axes'[tMAIN \o sufX \o sufMinus] = 0
  ]_vars

(* "SET MAIN 1.0" has been parsed and both halves of MAIN X still hold the *)
(* 0.5 of construction.                                                    *)
C4_Witness ==
  /\ parsed = <<lSetMain1>>
  /\ m_axes[tMAIN \o sufX \o sufPlus] = Half
  /\ m_axes[tMAIN \o sufX \o sufMinus] = Half

(* C5, as claimed: a line whose first token is PRESS or RELEASE and that   *)
(* has 3 or 4 tokens changes no button and no axis half.                   *)
C5_ExtraTokensIgnored ==
  [][StepParses =>
       LET t == Tokens(Command)
       IN  (Len(t) \in {3, 4} /\ t[1] \in {tPRESS, tRELEASE}) => UnchangedDevice
  ]_vars

(* C6: a line whose verb is none of PRESS, RELEASE, SET, or whose button   *)
(* name or derived axis keys are none of those created at construction,    *)
(* changes no button and no axis half, and the parse loop goes on.         *)
C6_UnknownIsIgnored ==
  [][StepParses =>
       LET t == Tokens(Command)
           n == Len(t)
       IN  (\/ n >= 1 /\ t[1] \notin {tPRESS, tRELEASE, tSET}
            \/ n >= 2 /\ t[1] \in {tPRESS, tRELEASE} /\ t[2] \notin s_button_tokens
            \/ n >= 3 /\ t[1] = tSET /\ SetTargets(t) \cap RecognizedAxes = {})
           => /\ UnchangedDevice
              /\ DOMAIN m_axes' = DOMAIN m_axes
              /\ pc' = "parse"
  ]_vars

(* With A pressed and L set, JUMP A has been parsed: nothing changed.      *)
C6_Witness ==
  /\ parsed = <<lJumpA>>
  /\ m_buttons[tA] = Unit
  /\ m_axes[tL \o sufPlus] = Unit

(* C10: a SET that targets a recognized axis key leaves at least one of    *)
(* the key's two halves at zero, and whenever a half of a key changes, the *)
(* key is one the SET targets and both halves are the ones of one common   *)
(* input.                                                                  *)
C10_HalvesComplementary ==
  [][StepParses =>
       \A k \in RecognizedAxes :
         LET hi == m_axes'[k \o sufPlus]
             lo == m_axes'[k \o sufMinus]
             c  == (hi - lo + Unit) \div 2
         IN  /\ k \in SetTargets(Tokens(Command)) => (hi = 0 \/ lo = 0)
             /\ (hi # m_axes[k \o sufPlus] \/ lo # m_axes[k \o sufMinus]) =>
                  /\ k \in SetTargets(Tokens(Command))
                  /\ hi = ClaimHi(c)
                  /\ lo = ClaimLo(c)
  ]_vars

(* SET MAIN 0 0.25 has been parsed: of MAIN X only the negative half, of   *)
(* MAIN Y only the negative half is non-zero.                              *)
C10_Witness ==
  /\ parsed = <<lSetMainB>>
  /\ m_axes[tMAIN \o sufX \o sufPlus] = 0
  /\ m_axes[tMAIN \o sufX \o sufMinus] = Unit
  /\ m_axes[tMAIN \o sufY \o sufPlus] = 0
  /\ m_axes[tMAIN \o sufY \o sufMinus] = Half

----------------------------------------------------------------------------
(* What the claims about SetAxis speak of *)

Called == last_set.name # <<>>

StoredHi == m_axes[last_set.name \o sufPlus]

StoredLo == m_axes[last_set.name \o sufMinus]

InRange(v) == 0 <= v /\ v <= Unit

C8_Endpoints ==
  (Called /\ last_set.name \in RecognizedAxes /\ InRange(last_set.value)) =>
    /\ last_set.value = 0 => (StoredHi = 0 /\ StoredLo = Unit)
    /\ last_set.value = Half => (StoredHi = 0 /\ StoredLo = 0)
    /\ last_set.value = Unit => (StoredHi = Unit /\ StoredLo = 0)
    /\ StoredHi = Unit => last_set.value = Unit
    /\ StoredLo = Unit => last_set.value = 0

C8_Monotone ==
  (/\ Called
   /\ last_set.name \in RecognizedAxes
   /\ last_set'.name = last_set.name
   /\ InRange(last_set.value)
   /\ InRange(last_set'.value)
   /\ last_set.value <= last_set'.value) =>
    /\ StoredHi <= StoredHi'
    /\ StoredLo >= StoredLo'

C9_ClampedToBoundary ==
  [][last_set'.name # <<>> =>
       LET name == last_set'.name
           v    == last_set'.value
       IN  /\ v < 0 =>
                /\ m_axes' = SetAxis(m_axes, name, 0)
                /\ name \in RecognizedAxes =>
                     (StoredHi' = 0 /\ StoredLo' = Unit)
           /\ v > Unit =>
                /\ m_axes' = SetAxis(m_axes, name, Unit)
                /\ name \in RecognizedAxes =>
                     (StoredHi' = Unit /\ StoredLo' = 0)
  ]_vars

(* SetAxis was called on MAIN X with an input below 0: the halves are the  *)
(* ones of input 0.                                                        *)
C9_Witness ==
  /\ last_set.name = tMAIN \o sufX
  /\ last_set.value < 0
  /\ m_axes[tMAIN \o sufX \o sufPlus] = 0
  /\ m_axes[tMAIN \o sufX \o sufMinus] = Unit

----------------------------------------------------------------------------
(* C11: in every state every axis half lies in [0,1] and every button      *)
(* holds exactly 0.0 or exactly 1.0, whatever number a SET carried:        *)
(* out of range, unparsable, or the uninitialized value of an empty token. *)
C11_ValuesInRange ==
  /\ \A k \in DOMAIN m_axes : 0 <= m_axes[k] /\ m_axes[k] <= Unit
  /\ \A b \in DOMAIN m_buttons : m_buttons[b] \in {0, Unit}

(* SET L 2 has been parsed with A pressed: the input 1.5 was clamped, L +  *)
(* holds 1.0 and L - holds 0.0.                                            *)
C11_Witness ==
  /\ parsed = <<lSetL2>>
  /\ m_buttons[tA] = Unit
  /\ m_axes[tL \o sufPlus] = Unit
  /\ m_axes[tL \o sufMinus] = 0

----------------------------------------------------------------------------
(* The USE_ZMQ build: PipeDevice::UpdateInput receives at most one message *)
(* of the PULL socket per call and scans it for commands.                  *)

MaxMsgs == 3      \* messages the producer sends

(* The scan with prev left at the start of the message *)
RECURSIVE ZmqScan_keepPrev(_, _, _)
ZmqScan_keepPrev(data, prev, next) ==
  IF next >= Len(data) THEN <<>>
  ELSE IF data[next + 1] = NL
    THEN <<SubSeq(data, prev + 1, next)>> \o ZmqScan_keepPrev(data, prev, next + 1)
    ELSE ZmqScan_keepPrev(data, prev, next + 1)

(* The scan that stops at the first newline *)
RECURSIVE ZmqScan_firstOnly(_, _, _)
ZmqScan_firstOnly(data, prev, next) ==
  IF next >= Len(data) THEN <<>>
  ELSE IF data[next + 1] = NL
    THEN <<SubSeq(data, prev + 1, next)>>
    ELSE ZmqScan_firstOnly(data, prev, next + 1)

(* The scan loop: the commands std::string(data + prev, next - prev) of a  *)
(* message, in order, from offsets prev and next (counted from 0) on       *)
RECURSIVE ZmqScan(_, _, _)
ZmqScan(data, prev, next) ==
  IF next >= Len(data) THEN <<>>
  ELSE IF data[next + 1] = NL
    THEN <<SubSeq(data, prev + 1, next)>> \o ZmqScan(data, next + 1, next + 1)
    ELSE ZmqScan(data, prev, next + 1)

(* ParseCommand on each command of the scan, in order *)
RECURSIVE ZmqParseAll(_, _, _, _)
ZmqParseAll(st, cmds, ux, uy) ==
  IF cmds = <<>> THEN st
  ELSE ZmqParseAll(ParseCommand(st, Head(cmds), ux, uy), Tail(cmds), ux, uy)

(* The messages queued in the socket *)
ZmqQueue == SubSeq(z_msgs, z_recv + 1, Len(z_msgs))

ZmqDevice == [buttons |-> z_buttons, axes |-> z_axes]

(* The messages a producer sends: whole lines, two commands in one         *)
(* message, an empty message, a command followed by the start of another,  *)
(* and PRESS A cut in two.                                                 *)
mPressA   == Concat(<<lPressA>>)
mTwo      == Concat(<<lReleaseA, lSetL1>>)
mEmpty    == <<>>
mHead     == Concat(<<lPressL>>) \o SubSeq(lPressA, 1, 3)
mPRE      == SubSeq(lPressA, 1, 3)
mSS_A     == SubSeq(lPressA, 4, Len(lPressA)) \o <<NL>>

Messages == {mPressA, mTwo, mEmpty, mHead, mPRE, mSS_A}

(* The producer sends a message *)
ZmqSend ==
  /\ Len(z_msgs) < MaxMsgs
  /\ \E m \in Messages : z_msgs' = Append(z_msgs, m)
  /\ UNCHANGED <<z_recv, z_buttons, z_axes, z_parsed>>
  /\ UNCHANGED <<script, nwritten, nread, m_buf, m_buttons, m_axes, pc,
                 parsed, entry, last_set, dvars>>

(* UpdateInput, zmq_recvmsg returns a message (rc >= 0) *)
ZmqReceive ==
  /\ ZmqQueue # <<>>
  /\ z_recv' = z_recv + 1
  /\ LET cmds == ZmqScan(Head(ZmqQueue), 0, 0)
     IN  /\ \E ux \in Garbage, uy \in Garbage :
               LET st == ZmqParseAll(ZmqDevice, cmds, ux, uy)
               IN  /\ z_buttons' = st.buttons
                   /\ z_axes' = st.axes
         /\ z_parsed' = z_parsed \o cmds
  /\ UNCHANGED z_msgs
  /\ UNCHANGED <<script, nwritten, nread, m_buf, m_buttons, m_axes, pc,
                 parsed, entry, last_set, dvars>>

(* UpdateInput, zmq_recvmsg returns -1 with EAGAIN: nothing queued *)
ZmqNoMessage ==
  /\ ZmqQueue = <<>>
  /\ UNCHANGED vars

NextZmq ==
  \/ ZmqSend
  \/ ZmqReceive
  \/ ZmqNoMessage

SpecZmq == InitCmd /\ [][NextZmq]_vars

----------------------------------------------------------------------------
(* A device of each build side by side.  The producer delivers one chunk   *)
(* to both, as the bytes written to the pipe of the one and as a message   *)
(* to the socket of the other, once both have consumed the chunk before.   *)

Synced ==
  /\ pc = "idle"
  /\ nread = Len(script)
  /\ z_recv = Len(z_msgs)

Deliver ==
  /\ Synced
  /\ Len(z_msgs) < MaxMsgs
  /\ \E m \in Messages :
       /\ script' = script \o m
       /\ nwritten' = Len(script) + Len(m)
       /\ z_msgs' = Append(z_msgs, m)
  /\ UNCHANGED <<nread, m_buf, m_buttons, m_axes, pc, parsed, entry, last_set>>
  /\ UNCHANGED <<z_recv, z_buttons, z_axes, z_parsed, dvars>>

NextPair ==
  \/ Deliver
  \/ UpdateInputCall
  \/ ReadChunk
  \/ ReadEmpty
  \/ ParseStep
  \/ Return
  \/ ZmqReceive
  \/ ZmqNoMessage

SpecPair == InitCmd /\ [][NextPair]_vars

(* A chunk made of whole lines: empty, or ending in a newline *)
WholeLines(m) == m = <<>> \/ Last(m) = NL

SameState == m_buttons = z_buttons /\ m_axes = z_axes

----------------------------------------------------------------------------
(* The byte-stream device and a producer that never stops writing.  The    *)
(* producer writes whole lines while the pipe has room; script holds the   *)
(* bytes in the pipe only (nread stays 0) and parsed is not recorded, so   *)
(* that the device can be polled for ever.  The host thread is scheduled   *)
(* fairly: a step of UpdateInput that stays possible is taken.  The        *)
(* std::string m_buf cannot grow beyond StrMax bytes: an append that would *)
(* do so fails (std::length_error or std::bad_alloc), and the failure      *)
(* leaves UpdateInput.                                                     *)

PipeCap == 16     \* bytes the pipe holds before the producer has to wait
StrMax == 24      \* bytes m_buf can hold

LiveLines == {lPressA, lReleaseA}

WriteForever ==
  /\ \E line \in LiveLines :
       /\ Len(script) + Len(line) + 1 <= PipeCap
       /\ script' = script \o line \o <<NL>>
       /\ nwritten' = Len(script) + Len(line) + 1
  /\ UNCHANGED <<nread, m_buf, m_buttons, m_axes, pc, parsed, entry, last_set>>
  /\ UNCHANGED <<zvars, dvars>>

(* read() returns bytes_read > 0 bytes and m_buf.append takes them *)
ReadChunkLive ==
  /\ pc = "read"
  /\ Pipe # <<>>
  /\ LET bytes_read == Min(BufSize, Len(Pipe))
     IN  /\ Len(m_buf) + bytes_read <= StrMax
         /\ m_buf' = m_buf \o SubSeq(Pipe, 1, bytes_read)
         /\ script' = SubSeq(script, bytes_read + 1, Len(script))
         /\ nwritten' = nwritten - bytes_read
  /\ UNCHANGED <<nread, m_buttons, m_axes, pc, parsed, entry, last_set>>
  /\ UNCHANGED <<zvars, dvars>>

(* read() returns bytes_read > 0 bytes and m_buf.append cannot grow m_buf *)
AppendFails ==
  /\ pc = "read"
  /\ Pipe # <<>>
  /\ LET bytes_read == Min(BufSize, Len(Pipe))
     IN  /\ Len(m_buf) + bytes_read > StrMax
         /\ script' = SubSeq(script, bytes_read + 1, Len(script))
         /\ nwritten' = nwritten - bytes_read
  /\ pc' = "failed"
  /\ UNCHANGED <<nread, m_buf, m_buttons, m_axes, parsed, entry, last_set>>
  /\ UNCHANGED <<zvars, dvars>>

(* One iteration of the parse loop *)
ParseStepLive ==
  /\ pc = "parse"
  /\ Find(m_buf) # 0
  /\ \E ux \in Garbage, uy \in Garbage :
       LET st == ParseCommand(Device, Command, ux, uy)
       IN  /\ m_buttons' = st.buttons
           /\ m_axes' = st.axes
  /\ m_buf' = SubSeq(m_buf, Find(m_buf) + 1, Len(m_buf))
  /\ UNCHANGED <<script, nwritten, nread, pc, parsed, entry, last_set>>
  /\ UNCHANGED <<zvars, dvars>>

HostLive ==
  \/ ReadChunkLive
  \/ AppendFails
  \/ ReadEmpty
  \/ ParseStepLive
  \/ Return

NextLive ==
  \/ WriteForever
  \/ UpdateInputCall
  \/ ReadChunkLive
  \/ AppendFails
  \/ ReadEmpty
  \/ ParseStepLive
  \/ Return

SpecLive == InitCmd /\ [][NextLive]_vars /\ WF_vars(HostLive)

(* C13, as claimed: every UpdateInput call returns, and none ends in an    *)
(* error, also when the producer goes on writing while the call reads.     *)
C13_CallReturns == [](pc = "read" => <>(pc = "idle")) /\ [](pc # "failed")

----------------------------------------------------------------------------
(* Discovery and teardown: PopulateDevices over the entries of the Pipes   *)
(* directory, the constructor's acquisition of the channel, and the        *)
(* destructor.  An entry is [name, isDirectory, ok]: name is its           *)
(* virtualName (the entries are numbered), ok tells whether open() on it   *)
(* succeeds (byte-stream build), whether zmq_connect to its port succeeds  *)
(* (USE_ZMQ build).  A directory that is missing shows as an empty list.   *)
(* The allocations of the constructor (new PipeInput, make_shared) either  *)
(* succeed or throw std::bad_alloc, which leaves PopulateDevices.          *)

MaxChildren == 3

Entries(n) ==
  {c \in [1..n -> [name : 1..n, isDirectory : BOOLEAN, ok : BOOLEAN]] :
     \A i \in 1..n : c[i].name = i}

ChildLists == UNION {Entries(n) : n \in 0..MaxChildren}

(* Handles: the descriptor open() returns for entry i, the context and the *)
(* socket zmq_ctx_new() and zmq_socket() return while entry i is handled,  *)
(* and the null pointer they return on failure                             *)
Fd(i) == [kind |-> "fd", of |-> i]

Ctx(i) == [kind |-> "context", of |-> i]

Sock(i) == [kind |-> "socket", of |-> i]

Null == [kind |-> "null", of |-> 0]

InitDisc ==
  /\ script = <<>>
  /\ nwritten = 0
  /\ nread = 0
  /\ m_buf = <<>>
  /\ m_buttons = InitButtons
  /\ m_axes = InitAxes
  /\ pc = "idle"
  /\ parsed = <<>>
  /\ entry = [partial |-> FALSE, np |-> 0]
  /\ last_set = [name |-> <<>>, value |-> 0]
  /\ ZmqInit
  /\ use_zmq \in BOOLEAN
  /\ children \in ChildLists
  /\ d_i = 0
  /\ d_pc = "start"
  /\ registry = <<>>
  /\ added = <<>>
  /\ acquired = {}
  /\ released = <<>>

(* The entry the loop is at *)
Child == children[d_i + 1]

InLoop == d_pc = "loop" /\ d_i < Len(children)

DeviceUnchanged ==
  UNCHANGED <<script, nwritten, nread, m_buf, m_buttons, m_axes, pc, parsed,
              entry, last_set, zvars>>

(* PopulateDevices is called and reaches its loop *)
PopulateDevicesCall ==
  /\ d_pc = "start"
  /\ d_pc' = "loop"
  /\ UNCHANGED <<use_zmq, children, d_i, registry, added, acquired, released>>
  /\ DeviceUnchanged

(* if (child.isDirectory) continue; *)
SkipDirectory ==
  /\ InLoop
  /\ Child.isDirectory
  /\ d_i' = d_i + 1
  /\ UNCHANGED <<use_zmq, children, d_pc, registry, added, acquired, released>>
  /\ DeviceUnchanged

(* open() fails and the loop ends (break in place of continue) *)
OpenFails_break ==
  /\ InLoop
  /\ ~use_zmq
  /\ ~Child.isDirectory
  /\ ~Child.ok
  /\ d_i' = Len(children)
  /\ UNCHANGED <<use_zmq, children, d_pc, registry, added, acquired, released>>
  /\ DeviceUnchanged

(* Byte-stream build: open() returns fd < 0, continue *)
OpenFails ==
  /\ InLoop
  /\ ~use_zmq
  /\ ~Child.isDirectory
  /\ ~Child.ok
  /\ d_i' = d_i + 1
  /\ UNCHANGED <<use_zmq, children, d_pc, registry, added, acquired, released>>
  /\ DeviceUnchanged

(* Byte-stream build: open() returns a descriptor, the device is           *)
(* constructed around it and added                                         *)
OpenAndAdd ==
  /\ InLoop
  /\ ~use_zmq
  /\ ~Child.isDirectory
  /\ Child.ok
  /\ acquired' = acquired \cup {Fd(d_i + 1)}
  /\ registry' = Append(registry, [m_name |-> Child.name, m_fd |-> Fd(d_i + 1)])
  /\ added' = Append(added, Child.name)
  /\ d_i' = d_i + 1
  /\ UNCHANGED <<use_zmq, children, d_pc, released>>
  /\ DeviceUnchanged

(* Byte-stream build: open() returns a descriptor and an allocation of the *)
(* construction throws: no device, no destructor, the exception leaves     *)
(* PopulateDevices                                                         *)
OpenAndThrow ==
  /\ InLoop
  /\ ~use_zmq
  /\ ~Child.isDirectory
  /\ Child.ok
  /\ acquired' = acquired \cup {Fd(d_i + 1)}
  /\ d_pc' = "aborted"
  /\ UNCHANGED <<use_zmq, children, d_i, registry, added, released>>
  /\ DeviceUnchanged

(* What the USE_ZMQ constructor holds after its three calls: zmq_ctx_new   *)
(* gives a context or null, zmq_socket a socket or null (null on a null    *)
(* context), zmq_connect fails on a null socket or an unreachable port;    *)
(* every failure is written to std::cout and construction goes on          *)
ZmqChannel(i, ctx_ok, sock_ok, port_ok) ==
  LET m_context == IF ctx_ok THEN Ctx(i) ELSE Null
      m_socket  == IF ctx_ok /\ sock_ok THEN Sock(i) ELSE Null
  IN  [m_context |-> m_context,
       m_socket  |-> m_socket,
       connected |-> m_socket # Null /\ port_ok]

(* USE_ZMQ build: the port is read from the entry, the device is           *)
(* constructed and added                                                   *)
ZmqAdd ==
  /\ InLoop
  /\ use_zmq
  /\ ~Child.isDirectory
  /\ \E ctx_ok \in BOOLEAN, sock_ok \in BOOLEAN :
       LET ch == ZmqChannel(d_i + 1, ctx_ok, sock_ok, Child.ok)
       IN  /\ acquired' = acquired \cup ({ch.m_context, ch.m_socket} \ {Null})
           /\ registry' = Append(registry, [m_name    |-> Child.name,
                                            m_context |-> ch.m_context,
                                            m_socket  |-> ch.m_socket,
                                            connected |-> ch.connected])
  /\ added' = Append(added, Child.name)
  /\ d_i' = d_i + 1
  /\ UNCHANGED <<use_zmq, children, d_pc, released>>
  /\ DeviceUnchanged

(* USE_ZMQ build: an allocation of the construction throws after the three *)
(* zmq calls                                                               *)
ZmqThrow ==
  /\ InLoop
  /\ use_zmq
  /\ ~Child.isDirectory
  /\ \E ctx_ok \in BOOLEAN, sock_ok \in BOOLEAN :
       LET ch == ZmqChannel(d_i + 1, ctx_ok, sock_ok, Child.ok)
       IN  acquired' = acquired \cup ({ch.m_context, ch.m_socket} \ {Null})
  /\ d_pc' = "aborted"
  /\ UNCHANGED <<use_zmq, children, d_i, registry, added, released>>
  /\ DeviceUnchanged

(* The loop has gone through every entry: PopulateDevices returns *)
LoopEnd ==
  /\ d_pc = "loop"
  /\ d_i = Len(children)
  /\ d_pc' = "done"
  /\ UNCHANGED <<use_zmq, children, d_i, registry, added, acquired, released>>
  /\ DeviceUnchanged

(* What the destructor passes to close(), or to zmq_close() and then to    *)
(* zmq_ctx_destroy()                                                       *)
DestructorReleases(dev) ==
  IF use_zmq THEN <<dev.m_socket, dev.m_context>> ELSE <<dev.m_fd>>

(* Teardown: the controller interface drops a device, ~PipeDevice runs *)
Destroy ==
  /\ d_pc \in {"done", "aborted"}
  /\ \E k \in 1..Len(registry) :
       /\ released' = released \o DestructorReleases(registry[k])
       /\ registry' = SubSeq(registry, 1, k - 1)
                        \o SubSeq(registry, k + 1, Len(registry))
  /\ UNCHANGED <<use_zmq, children, d_i, d_pc, added, acquired>>
  /\ DeviceUnchanged

NextDisc ==
  \/ PopulateDevicesCall
  \/ SkipDirectory
  \/ OpenFails
  \/ OpenAndAdd
  \/ OpenAndThrow
  \/ ZmqAdd
  \/ ZmqThrow
  \/ LoopEnd
  \/ Destroy

SpecDisc == InitDisc /\ [][NextDisc]_vars

----------------------------------------------------------------------------
(* What the claims about discovery speak of *)

(* How many times handle h was released *)
ReleaseCount(h) == Cardinality({i \in 1..Len(released) : released[i] = h})

(* The handles the registered devices hold *)
Owned ==
  UNION {{registry[k][f] : f \in DOMAIN registry[k] \cap {"m_fd", "m_context", "m_socket"}} :
           k \in 1..Len(registry)}

(* C14, as claimed: no handle is released twice, none is released that     *)
(* was not acquired, and once PopulateDevices is over, however it ended,   *)
(* every handle acquired is held by a registered device or was released by *)
(* that device's teardown: none is left open without an owner.             *)
C14_ReleasedExactlyOnce ==
  /\ \A h \in acquired : ReleaseCount(h) <= 1
  /\ \A i \in 1..Len(released) : released[i] \in acquired
  /\ d_pc \in {"done", "aborted"} =>
       \A h \in acquired : ReleaseCount(h) = 1 \/ h \in Owned

Openable(c) == ~c.isDirectory /\ c.ok

RegisteredByCode(c) == ~c.isDirectory /\ (use_zmq \/ c.ok)

(* The names of the entries among the first n that are no directory and    *)
(* can be opened or connected                                              *)
RECURSIVE OpenableNames(_)
OpenableNames(n) ==
  IF n = 0 THEN <<>>
  ELSE OpenableNames(n - 1)
         \o (IF Openable(children[n]) THEN <<children[n].name>> ELSE <<>>)

(* The names of the entries among the first n for which the build adds a   *)
(* device                                                                  *)
RECURSIVE RegisteredNames(_)
RegisteredNames(n) ==
  IF n = 0 THEN <<>>
  ELSE RegisteredNames(n - 1)
         \o (IF RegisteredByCode(children[n]) THEN <<children[n].name>> ELSE <<>>)

----------------------------------------------------------------------------
(* What the claims about the message-oriented device speak of *)

(* The complete lines of each of the messages, message after message *)
RECURSIVE LinesOfAll(_)
LinesOfAll(msgs) ==
  IF msgs = <<>> THEN <<>>
  ELSE CompleteLines(Head(msgs)) \o LinesOfAll(Tail(msgs))

(* The step is an UpdateInput call of the USE_ZMQ device that received *)
ZmqCallReceives == z_recv' # z_recv

(* C16, as claimed, for the message-oriented device: when an UpdateInput   *)
(* call returns, the complete lines of every message that was queued when  *)
(* it began have been parsed, in order.                                    *)
C16_CallDrainsChannel ==
  [][ZmqCallReceives => z_parsed' = z_parsed \o LinesOfAll(ZmqQueue)]_vars

(* C17: the UpdateInput call that receives a message parses and applies    *)
(* the complete lines of that one message, all of them and in order, and   *)
(* nothing else: neither the bytes after its last newline nor anything     *)
(* left of an earlier message.                                             *)
C17_MessageScannedAlone ==
  [][ZmqCallReceives =>
       LET lines == CompleteLines(z_msgs[z_recv + 1])
       IN  /\ z_recv' = z_recv + 1
           /\ z_parsed' = z_parsed \o lines
           /\ ZmqDevice' = ApplyAll(ZmqDevice, lines)
  ]_vars

(* A message of two commands, then PRESS L followed by "PRE", then         *)
(* "SS A": the two commands and PRESS L were applied, "PRE" was dropped    *)
(* and "SS A" parsed on its own, so A is not pressed.                      *)
C17_Witness ==
  /\ z_msgs = <<mTwo, mHead, mSS_A>>
  /\ z_recv = 3
  /\ z_parsed = <<lReleaseA, lSetL1, lPressL, SubSeq(lPressA, 4, Len(lPressA))>>
  /\ z_buttons[tA] = 0
  /\ z_buttons[tL] = Unit
  /\ z_axes[tL \o sufPlus] = Unit

----------------------------------------------------------------------------
(* C18: the lines handed to ParseCommand, each with its newline put back,  *)
(* followed by m_buf, are at every moment the bytes received: every        *)
(* complete line left m_buf for ParseCommand exactly once and no byte was  *)
(* lost; and whenever UpdateInput has returned, m_buf holds no newline and *)
(* is exactly the bytes received since the last newline.                   *)
C18_AccumulatorIsTheTail ==
  /\ Concat(parsed) \o m_buf = Received
  /\ pc = "idle" =>
       /\ Find(m_buf) = 0
       /\ m_buf = TrailingPartial(Received)

(* UpdateInput has returned after PRESS A and the first bytes of RELEASE A *)
(* were read: the line was parsed and m_buf holds the bytes of the second. *)
C18_Witness ==
  /\ pc = "idle"
  /\ script = Concat(<<lPressA, lReleaseA>>)
  /\ nread = Len(lPressA) + 4
  /\ parsed = <<lPressA>>
  /\ m_buf = SubSeq(lReleaseA, 1, 3)

----------------------------------------------------------------------------
(* The keys of the two halves of the axis names a line's SET derives *)
TargetHalves(t) ==
  {k \o sufPlus : k \in SetTargets(t)} \cup {k \o sufMinus : k \in SetTargets(t)}

(* C19: buttons and axes are disjoint: a line that begins with PRESS or    *)
(* RELEASE changes no axis half (PRESS L leaves shoulder axis L alone) and *)
(* no button but the one its second token names; a line that begins with   *)
(* SET changes no button and no axis half but the two halves of the key a  *)
(* three-token line names, the four halves of "<axis> X" and "<axis> Y" a  *)
(* four-token line names; no line adds or removes a button or an axis.     *)
C19_CommandFrame ==
  [][StepParses =>
       LET t == Tokens(Command)
       IN  /\ DOMAIN m_buttons' = DOMAIN m_buttons
           /\ DOMAIN m_axes' = DOMAIN m_axes
           /\ (Len(t) >= 1 /\ t[1] \in {tPRESS, tRELEASE}) =>
                /\ m_axes' = m_axes
                /\ \A b \in DOMAIN m_buttons :
                     m_buttons'[b] # m_buttons[b] => (Len(t) >= 2 /\ b = t[2])
           /\ (Len(t) >= 1 /\ t[1] = tSET) =>
                /\ m_buttons' = m_buttons
                /\ \A key \in DOMAIN m_axes :
                     m_axes'[key] # m_axes[key] => key \in TargetHalves(t)
  ]_vars

(* With shoulder axis L fully pressed by a SET, PRESS L has been parsed:   *)
(* button L is pressed and the halves of axis L are as the SET left them.  *)
C19_Witness ==
  /\ parsed = <<lPressL>>
  /\ m_buttons[tL] = Unit
  /\ m_axes[tL \o sufPlus] = Unit
  /\ m_axes[tL \o sufMinus] = 0

----------------------------------------------------------------------------
StickKeys == {t \o sufX : t \in s_axis_tokens} \cup {t \o sufY : t \in s_axis_tokens}

BothNonZero(axes, k) == axes[k \o sufPlus] # 0 /\ axes[k \o sufMinus] # 0

KeyChanges(k) ==
  \/ m_axes'[k \o sufPlus] # m_axes[k \o sufPlus]
  \/ m_axes'[k \o sufMinus] # m_axes[k \o sufMinus]

(* The axis values of a device on which no command was applied *)
C20_Fresh ==
  /\ \A k \in s_shoulder_tokens :
       m_axes[k \o sufPlus] = 0 /\ m_axes[k \o sufMinus] = 0
  /\ \A k \in StickKeys :
       m_axes[k \o sufPlus] = Half /\ m_axes[k \o sufMinus] = Half

(* C20: on a fresh device both halves of L and R hold 0.0 and both halves  *)
(* of MAIN X, MAIN Y, C X, C Y hold 0.5.  The halves of a stick key change *)
(* only when a four-token SET that names its stick is applied.  A SET      *)
(* applied to an axis key leaves one of its halves at zero, and no step    *)
(* ever makes both halves of a key non-zero: such a state is only ever     *)
(* kept from construction, so it is gone for good after the first SET.     *)
C20_NeutralUntilFirstSet ==
  /\ C20_Fresh
  /\ [][/\ \A k \in StickKeys :
             KeyChanges(k) =>
               /\ StepParses
               /\ Len(Tokens(Command)) = 4
               /\ k \in SetTargets(Tokens(Command))
        /\ \A k \in RecognizedAxes :
             /\ BothNonZero(m_axes', k) => (BothNonZero(m_axes, k) /\ ~KeyChanges(k))
             /\ (StepParses /\ k \in SetTargets(Tokens(Command))) =>
                  ~BothNonZero(m_axes', k)
       ]_vars

(* SET MAIN 0 0.25 was applied, then SET MAIN 1.0 parsed: MAIN X has one   *)
(* half at zero, and C X, never set, still holds 0.5 in both halves.       *)
C20_Witness ==
  /\ parsed = <<lSetMain1>>
  /\ m_axes[tMAIN \o sufX \o sufPlus] = 0
  /\ m_axes[tMAIN \o sufX \o sufMinus] = Unit
  /\ BothNonZero(m_axes, tC \o sufX)
  /\ m_axes[tC \o sufX \o sufPlus] = Half

====
